---- MODULE Spec2Model ----
(***************************************************************************)
(* A model of example/a.c: the threshold transform a_inline_static_func,   *)
(* its weak wrapper a_func, the doubling callers a_static_func2 and        *)
(* main_func, and the global aa_ that holds a pointer to the transform.    *)
(*                                                                         *)
(* int is 32-bit two's complement.  The exact value of x + x and of x * x  *)
(* is computed in 64 bits (eight bytes, least significant first), where it *)
(* always fits; the operation overflows int when that value does not fit   *)
(* in 32 bits.  Signed overflow is undefined behaviour in C: the model     *)
(* lets the build either wrap the value to 32 bits or trap.                *)
(***************************************************************************)
EXTENDS Integers, Sequences, FiniteSets

VARIABLES
    aa_,     \* the global struct AA: [func |-> name of the function pointed to]
    pc,      \* "idle" | "returned" | "trapped"
    fn,      \* the function of the last call ("none" when idle)
    arg,     \* its argument
    ret,     \* its return value (0 when idle or trapped)
    ops,     \* the arithmetic operations the call executed, in order
    calls,   \* the nested calls the call made, in order
    seen     \* one earlier call kept for comparison, or NoCall

vars == <<aa_, pc, fn, arg, ret, ops, calls, seen>>

----------------------------------------------------------------------------
(* Bounds of the model. *)

\* Every int in -MaxSmall .. MaxSmall is an input.
MaxSmall == 1100

\* Around each boundary value b, b - Width .. b + Width are inputs.
Width == 3

----------------------------------------------------------------------------
(* 32-bit int and exact 64-bit arithmetic. *)

INT_MAX == (2^30 - 1) + 2^30
INT_MIN == (-(2^30)) - 2^30

Int32 == INT_MIN..INT_MAX

\* x sign-extended to 64 bits: bytes 1..8, least significant first.
ToWide(x) ==
    [i \in 1..8 |-> IF i <= 4 THEN (x \div (256^(i - 1))) % 256
                    ELSE IF x < 0 THEN 255 ELSE 0]

\* a + b modulo 2^64.
WideAdd(a, b) ==
    LET s[i \in 0..8] == IF i = 0 THEN 0 ELSE a[i] + b[i] + (s[i - 1] \div 256)
    IN  [i \in 1..8 |-> s[i] % 256]

\* a * b modulo 2^64.
WideMul(a, b) ==
    LET RECURSIVE col(_, _)
        col(k, i) == IF i > k THEN 0 ELSE a[i] * b[k + 1 - i] + col(k, i + 1)
        t[k \in 0..8] == IF k = 0 THEN 0 ELSE col(k, 1) + (t[k - 1] \div 256)
    IN  [k \in 1..8 |-> t[k] % 256]

\* The 64-bit value is the sign extension of its low 32 bits.
Fits32(w) ==
    LET ext == IF w[4] >= 128 THEN 255 ELSE 0
    IN  \A i \in 5..8 : w[i] = ext

\* The low 32 bits as an int.
Low32(w) ==
    (IF w[4] >= 128 THEN w[4] - 256 ELSE w[4]) * (2^24)
        + w[3] * (2^16) + w[2] * (2^8) + w[1]

\* What a signed int operation with exact result w can do: deliver the value,
\* or, when it does not fit (undefined behaviour), wrap or trap.
SignedArith(w) ==
    IF Fits32(w)
    THEN {[val |-> Low32(w), trap |-> FALSE]}
    ELSE {[val |-> Low32(w), trap |-> FALSE], [val |-> 0, trap |-> TRUE]}

\* The record of one executed arithmetic operation.
Op(kind, line, a, w) ==
    [op |-> kind, line |-> line, a |-> a, ovf |-> ~Fits32(w)]

\* The record of one nested call.
Call(f, x) == [fn |-> f, arg |-> x]

\* The outcome of a function body.
Outcome(r, tr, o, c) == [ret |-> r, trap |-> tr, ops |-> o, calls |-> c]

\* The outcomes of one signed int operation with exact result w.
Arith(kind, line, a, w) ==
    {Outcome(m.val, m.trap, <<Op(kind, line, a, w)>>, <<>>) : m \in SignedArith(w)}

\* The outcomes S of the body of f, entered by a call f(x).
CallTo(f, x, S) ==
    {[o EXCEPT !.calls = <<Call(f, x)>> \o @] : o \in S}

\* The values the outcomes of S deliver.
Rets(S) == {o.ret : o \in S}

\* Sequencing: after an outcome of S that did not trap, the program continues
\* with an outcome of K[v], v the value delivered; a trap ends the program.
Then(S, K) ==
    UNION {IF o.trap THEN {o}
           ELSE {Outcome(k.ret, k.trap, o.ops \o k.ops, o.calls \o k.calls) :
                    k \in K[o.ret]} :
           o \in S}

----------------------------------------------------------------------------
(* The functions of a.c, each as the set of outcomes of a call. *)

\* Mutants of a_inline_static_func: the threshold off by one, the guard
\* missing, and a guard that also passes negative values through.
a_inline_static_func_threshold_1001(x) ==
    IF x > 1001
    THEN {Outcome(x, FALSE, <<>>, <<>>)}
    ELSE Arith("mul", 32, x, WideMul(ToWide(x), ToWide(x)))

a_inline_static_func_no_guard(x) ==
    Arith("mul", 32, x, WideMul(ToWide(x), ToWide(x)))

a_inline_static_func_neg_unchanged(x) ==
    IF x > 1000 \/ x < 0
    THEN {Outcome(x, FALSE, <<>>, <<>>)}
    ELSE Arith("mul", 32, x, WideMul(ToWide(x), ToWide(x)))

\* a.c:25-33: if (x > 1000) return x; return x * x;
a_inline_static_func(x) ==
    IF x > 1000
    THEN {Outcome(x, FALSE, <<>>, <<>>)}
    ELSE Arith("mul", 32, x, WideMul(ToWide(x), ToWide(x)))

\* Mutants of a_func: >= for >, and a guard at 100.
a_func_ge(x) ==
    IF x >= 1000
    THEN {Outcome(x, FALSE, <<>>, <<>>)}
    ELSE CallTo("a_inline_static_func", x, a_inline_static_func(x))

a_func_low_guard(x) ==
    IF x > 100
    THEN {Outcome(x, FALSE, <<>>, <<>>)}
    ELSE CallTo("a_inline_static_func", x, a_inline_static_func(x))

\* a.c:36-44: if (x > 1000) return x; return a_inline_static_func(x);
\* The definition is weak; this is the one the translation unit provides.
a_func(x) ==
    IF x > 1000
    THEN {Outcome(x, FALSE, <<>>, <<>>)}
    ELSE CallTo("a_inline_static_func", x, a_inline_static_func(x))

\* Mutants of a_static_func2: a_func(x) for a_func(x+x), and the transform
\* applied once.
a_static_func2_no_doubling(x) ==
    LET assigned == CallTo("a_func", x, a_func(x))
        second == [y \in Rets(assigned) |->
                     CallTo("a_inline_static_func", y, a_inline_static_func(y))]
    IN  Then(assigned, second)

a_static_func2_once(x) ==
    LET doubled == Arith("add", 49, x, WideAdd(ToWide(x), ToWide(x)))
        first == [d \in Rets(doubled) |-> CallTo("a_func", d, a_func(d))]
    IN  Then(doubled, first)

\* a.c:47-52: x = a_func(x+x); return a_inline_static_func(x);
a_static_func2(x) ==
    LET doubled == Arith("add", 49, x, WideAdd(ToWide(x), ToWide(x)))
        first == [d \in Rets(doubled) |-> CallTo("a_func", d, a_func(d))]
        assigned == Then(doubled, first)
        second == [y \in Rets(assigned) |->
                     CallTo("a_inline_static_func", y, a_inline_static_func(y))]
    IN  Then(assigned, second)

\* Mutants of main_func: a_func(x) for a_func(x+x), and the doubling done
\* in unsigned arithmetic, which wraps and never overflows.
main_func_no_doubling(x) ==
    CallTo("a_func", x, a_func(x))

main_func_unsigned(x) ==
    LET d == Low32(WideAdd(ToWide(x), ToWide(x)))
        doubled == {Outcome(d, FALSE,
                            <<[op |-> "add", line |-> 59, a |-> x, ovf |-> FALSE]>>,
                            <<>>)}
    IN  Then(doubled, [v \in {d} |-> CallTo("a_func", v, a_func(v))])

\* a.c:57-60: return a_func(x+x);
main_func(x) ==
    LET doubled == Arith("add", 59, x, WideAdd(ToWide(x), ToWide(x)))
        callee == [d \in Rets(doubled) |-> CallTo("a_func", d, a_func(d))]
    IN  Then(doubled, callee)

\* The initializer of aa_, a.c:12-15.
aa_initial == [func |-> "a_inline_static_func"]

\* A call through a pointer to the function named p.
CallPointer(p, x) ==
    CASE p = "a_inline_static_func" -> a_inline_static_func(x)
      [] p = "a_func" -> a_func(x)
      [] p = "a_static_func2" -> a_static_func2(x)
      [] p = "main_func" -> main_func(x)

----------------------------------------------------------------------------
(* The inputs of the model. *)

\* The ints within Width of b.
Near(b) ==
    {IF d >= 0 THEN (IF b > INT_MAX - d THEN INT_MAX ELSE b + d)
               ELSE (IF b < INT_MIN - d THEN INT_MIN ELSE b + d) :
        d \in -Width..Width}

\* Where doubling and squaring change behaviour in 32 bits: the ends of int,
\* +-2^30 (x + x), +-46340 (x * x), +-23170 ((x + x) * (x + x)), +-2^16.
Boundaries ==
    {INT_MIN, INT_MAX, 2^30, -(2^30), 46340, -46340, 23170, -23170, 2^16, -(2^16)}

\* The spec's example inputs.
Examples == {5, 2000}

Inputs == (-MaxSmall..MaxSmall) \cup Examples \cup UNION {Near(b) : b \in Boundaries}

\* The arguments whose calls may be kept in seen.
Probe == {-3} \cup Examples

NoCall == [fn |-> "none", arg |-> 0, ret |-> 0]

Functions == {"a_inline_static_func", "a_func", "a_static_func2", "main_func"}

\* The outcomes of every call f(x) on an input, computed once:
\* OnInputs[f][x] = CallPointer(f, x).
OnInputs == [f \in Functions |-> [x \in Inputs |-> CallPointer(f, x)]]

----------------------------------------------------------------------------
(* The state machine: a caller that calls the functions in any order. *)

Init ==
    /\ aa_ = aa_initial
    /\ pc = "idle"
    /\ fn = "none"
    /\ arg = 0
    /\ ret = 0
    /\ ops = <<>>
    /\ calls = <<>>
    /\ seen = NoCall

\* The state after a call f(x) with outcome o; no function writes aa_.
Finish(f, x, o) ==
    /\ pc' = IF o.trap THEN "trapped" ELSE "returned"
    /\ fn' = f
    /\ arg' = x
    /\ ret' = o.ret
    /\ ops' = o.ops
    /\ calls' = o.calls
    /\ UNCHANGED <<aa_, seen>>

call_a_inline_static_func ==
    /\ pc = "idle"
    /\ \E x \in Inputs : \E o \in OnInputs["a_inline_static_func"][x] :
          Finish("a_inline_static_func", x, o)

call_a_func ==
    /\ pc = "idle"
    /\ \E x \in Inputs : \E o \in OnInputs["a_func"][x] : Finish("a_func", x, o)

\* Mutant of call_a_static_func2: the call rebinds aa_.func to a_func.
call_a_static_func2_rebinds ==
    /\ pc = "idle"
    /\ \E x \in Inputs : \E o \in OnInputs["a_static_func2"][x] :
          /\ pc' = IF o.trap THEN "trapped" ELSE "returned"
          /\ fn' = "a_static_func2"
          /\ arg' = x
          /\ ret' = o.ret
          /\ ops' = o.ops
          /\ calls' = o.calls
          /\ aa_' = [func |-> "a_func"]
          /\ UNCHANGED seen

call_a_static_func2 ==
    /\ pc = "idle"
    /\ \E x \in Inputs : \E o \in OnInputs["a_static_func2"][x] : Finish("a_static_func2", x, o)

call_main_func ==
    /\ pc = "idle"
    /\ \E x \in Inputs : \E o \in OnInputs["main_func"][x] : Finish("main_func", x, o)

\* aa_.func(x)
call_aa_func ==
    /\ pc = "idle"
    /\ \E x \in Inputs : \E o \in OnInputs[aa_.func][x] : Finish("aa_.func", x, o)

\* The caller takes the result and is ready for the next call.
next_call ==
    /\ pc = "returned"
    /\ pc' = "idle"
    /\ fn' = "none"
    /\ arg' = 0
    /\ ret' = 0
    /\ ops' = <<>>
    /\ calls' = <<>>
    /\ UNCHANGED <<aa_, seen>>

\* The same, and the caller keeps the call to compare a later one with it.
keep_call ==
    /\ pc = "returned"
    /\ arg \in Probe
    /\ seen' = [fn |-> fn, arg |-> arg, ret |-> ret]
    /\ pc' = "idle"
    /\ fn' = "none"
    /\ arg' = 0
    /\ ret' = 0
    /\ ops' = <<>>
    /\ calls' = <<>>
    /\ UNCHANGED aa_

Next ==
    \/ call_a_inline_static_func
    \/ call_a_func
    \/ call_a_static_func2
    \/ call_main_func
    \/ call_aa_func
    \/ next_call
    \/ keep_call

Spec == Init /\ [][Next]_vars

TypeOK ==
    /\ aa_ \in [func : Functions]
    /\ pc \in {"idle", "returned", "trapped"}
    /\ arg \in Int32
    /\ ret \in Int32

----------------------------------------------------------------------------
(* Vocabulary of the properties. *)

\* A call has ended: it returned or it trapped.
Called(f) == pc # "idle" /\ fn = f

Transform == {"a_inline_static_func", "a_func"}

Callers == {"main_func", "a_static_func2"}

\* Some arithmetic operation of the call overflowed int.
Overflowed == \E i \in 1..Len(ops) : ops[i].ovf

\* The state is the end of a call with outcome o, up to the nested calls.
Matches(o) ==
    /\ o.trap = (pc = "trapped")
    /\ o.ret = ret
    /\ o.ops = ops

\* A result as a mathematical integer: an int, or a value above INT_MAX or
\* below INT_MIN, which no int equals.
AnInt(n) == [k |-> "int", v |-> n]

Above == [k |-> "above", v |-> 0]

Below == [k |-> "below", v |-> 0]

\* 2x as a mathematical integer.
MathDouble(x) ==
    IF x > 2^30 - 1 THEN Above
    ELSE IF x < -(2^30) THEN Below
    ELSE AnInt(2 * x)

\* T(y) = y if y > 1000 else y*y, on mathematical integers.  A value above
\* INT_MAX exceeds 1000 and stays; the square of a value below INT_MIN is
\* above INT_MAX.
MathT(y) ==
    IF y.k # "int" THEN Above
    ELSE IF y.v > 1000 THEN y
    ELSE IF Fits32(WideMul(ToWide(y.v), ToWide(y.v))) THEN AnInt(y.v * y.v)
    ELSE Above

----------------------------------------------------------------------------
(* C1 *)

\* C1: for every x > 1000, a_inline_static_func(x) and a_func(x) return x
\* unchanged.
C1_AboveThresholdUnchanged ==
    \A f \in Transform :
        (Called(f) /\ arg > 1000) => (pc = "returned" /\ ret = arg)

\* a_inline_static_func(1001) has returned 1001, just above the threshold.
C1_Witness ==
    Called("a_inline_static_func") /\ pc = "returned" /\ arg = 1001 /\ ret = 1001

----------------------------------------------------------------------------
(* C2 *)

\* C2: for every x in [0, 1000], both bounds included, a_inline_static_func(x)
\* and a_func(x) return x*x; 1000 is squared.
C2_SquaresUpToThreshold ==
    \A f \in Transform :
        (Called(f) /\ arg \in 0..1000) => (pc = "returned" /\ ret = arg * arg)

\* a_func(1000) has returned 1000000.
C2_Witness ==
    Called("a_func") /\ pc = "returned" /\ arg = 1000 /\ ret = 1000000

----------------------------------------------------------------------------
(* C8 *)

\* The possible results of a call: value, trap, and arithmetic executed.
Results(S) == {[ret |-> o.ret, trap |-> o.trap, ops |-> o.ops] : o \in S}

\* C8: a_func and a_inline_static_func compute the same function, overflow
\* behaviour included: a call a_func(x) ends as some call
\* a_inline_static_func(x) ends, both have the same possible results, and
\* a_func delegates only with x <= 1000, so its own guard adds nothing.
C8_SameFunction ==
    Called("a_func") =>
        /\ \E o \in a_inline_static_func(arg) : Matches(o)
        /\ Results(a_func(arg)) = Results(a_inline_static_func(arg))
        /\ \A i \in 1..Len(calls) :
              calls[i] = Call("a_inline_static_func", arg) /\ arg <= 1000
        /\ (arg > 1000) <=> (calls = <<>>)

\* a_func(x) has delegated a squaring that overflowed and wrapped.
C8_Witness ==
    /\ Called("a_func") /\ pc = "returned"
    /\ calls = <<Call("a_inline_static_func", arg)>>
    /\ Overflowed

----------------------------------------------------------------------------
(* C10 *)

\* C10: negative inputs take the squaring branch of a_inline_static_func and
\* a_func.  For -46340 <= x the call returns a result >= 0 and >= x, equal to
\* x*x when x < 0, and equal to x exactly for x in {0, 1} and x > 1000.  The
\* squaring overflows exactly when x < -46340, never for x in [0, 1000],
\* where x*x <= 1000000.
C10_NegativeInputsSquared ==
    \A f \in Transform :
        Called(f) =>
            /\ (arg < 0) =>
                  ops = <<[op |-> "mul", line |-> 32, a |-> arg, ovf |-> Overflowed]>>
            /\ (arg >= -46340) =>
                  /\ pc = "returned"
                  /\ ret >= 0
                  /\ ret >= arg
                  /\ (arg < 0) => (ret = arg * arg)
                  /\ (ret = arg) <=> (arg \in {0, 1} \/ arg > 1000)
            /\ Overflowed <=> (arg < -46340)
            /\ (arg \in 0..1000) => (ret <= 1000000)

\* a_inline_static_func(-46340) has returned 2147395600, the largest square
\* that fits.
C10_Witness ==
    /\ Called("a_inline_static_func") /\ pc = "returned"
    /\ arg = -46340
    /\ ret = 2147395600

----------------------------------------------------------------------------
(* C3 *)

\* The state holds the mathematical integer m as the returned value.
Returns(m) == pc = "returned" /\ m.k = "int" /\ ret = m.v

\* C3 as stated: for every x, main_func(x) returns (2x)*(2x) when
\* 0 <= 2x <= 1000 and returns 2x when 2x > 1000.
C3_AsStated ==
    Called("main_func") =>
        /\ (arg \in 0..500) => Returns(AnInt((2 * arg) * (2 * arg)))
        /\ (arg > 500) => Returns(MathDouble(arg))

\* C3, amended: for every x whose double is an int, main_func(x) calls
\* a_func(x+x) and ends as that call ends; it returns (2x)*(2x) when
\* 0 <= 2x <= 1000 and 2x when 1000 < 2x <= INT_MAX.
C3_DoublesThenTransforms ==
    (Called("main_func") /\ MathDouble(arg).k = "int") =>
        /\ Len(ops) >= 1 /\ ~ops[1].ovf
        /\ Len(calls) >= 1 /\ calls[1] = Call("a_func", 2 * arg)
        /\ \E o \in a_func(2 * arg) :
              /\ o.trap = (pc = "trapped")
              /\ o.ret = ret
              /\ o.ops = Tail(ops)
              /\ o.calls = Tail(calls)
        /\ (arg \in 0..500) => Returns(AnInt((2 * arg) * (2 * arg)))
        /\ (arg > 500) => Returns(AnInt(2 * arg))

\* The spec's example: main_func(5) doubled 5 to 10 and returned 100.
C3_Witness ==
    /\ Called("main_func") /\ pc = "returned"
    /\ arg = 5
    /\ calls[1] = Call("a_func", 10)
    /\ ret = 100

----------------------------------------------------------------------------
(* C4 *)

\* C4 as stated: for every x > 1000 with x+x representable, main_func(x) and
\* a_static_func2(x) return x.
C4_AsStated ==
    \A f \in Callers :
        (Called(f) /\ arg > 1000 /\ MathDouble(arg).k = "int") =>
            (pc = "returned" /\ ret = arg)

\* C4, amended: for every x > 1000 with x+x representable, main_func(x) and
\* a_static_func2(x) return x+x, the doubled input; the transform that they
\* call returns its own argument unchanged.
C4_CallersReturnDoubled ==
    \A f \in Callers :
        (Called(f) /\ arg > 1000 /\ MathDouble(arg).k = "int") =>
            /\ pc = "returned"
            /\ ret = 2 * arg
            /\ ~Overflowed
            /\ Len(calls) >= 1 /\ calls[1] = Call("a_func", ret)

\* main_func(2000) has returned 4000.
C4_Witness ==
    Called("main_func") /\ pc = "returned" /\ arg = 2000 /\ ret = 4000

----------------------------------------------------------------------------
(* C5 *)

\* C5 as stated: the squaring at line 32 is the only operation of the file
\* that can overflow int.
C5_AsStated ==
    pc # "idle" =>
        \A i \in 1..Len(ops) : ops[i].ovf => (ops[i].op = "mul" /\ ops[i].line = 32)

\* The arithmetic of the file: the squaring and the two doublings.
Sites ==
    {[op |-> "mul", line |-> 32], [op |-> "add", line |-> 49],
     [op |-> "add", line |-> 59]}

\* C5, amended: the squaring at line 32 and the doublings x+x at lines 49
\* and 59 are the only operations of the file, and each can overflow: a
\* doubling overflows exactly when x < -2^30 or x > 2^30-1, a squaring
\* exactly when its operand is outside [-46340, 46340].  A call of
\* a_static_func2 or main_func starts with its doubling; a_func and
\* a_inline_static_func do not add.
C5_OverflowSites ==
    pc # "idle" =>
        /\ \A i \in 1..Len(ops) :
              /\ [op |-> ops[i].op, line |-> ops[i].line] \in Sites
              /\ (ops[i].op = "add") =>
                    (ops[i].ovf <=> (ops[i].a < -(2^30) \/ ops[i].a > 2^30 - 1))
              /\ (ops[i].op = "mul") =>
                    (ops[i].ovf <=> (ops[i].a < -46340 \/ ops[i].a > 46340))
              /\ (ops[i].op = "add") => (i = 1 /\ fn \in Callers)
        /\ (fn = "a_static_func2") =>
              (Len(ops) >= 1 /\ ops[1].op = "add" /\ ops[1].line = 49 /\ ops[1].a = arg)
        /\ (fn = "main_func") =>
              (Len(ops) >= 1 /\ ops[1].op = "add" /\ ops[1].line = 59 /\ ops[1].a = arg)

\* main_func(2^30): the doubling overflowed.
C5_Witness ==
    /\ Called("main_func")
    /\ arg = 2^30
    /\ ops[1] = [op |-> "add", line |-> 59, a |-> arg, ovf |-> TRUE]

----------------------------------------------------------------------------
(* C6 *)

\* C6 as stated: there is an x in [0, 1000] for which a multiplication
\* reached from main_func(x) or a_static_func2(x) overflows: a caller that
\* is ready to call can make such a call.
C6_AsStated ==
    (pc = "idle") =>
        ENABLED (/\ call_main_func \/ call_a_static_func2
                 /\ arg' \in 0..1000
                 /\ \E i \in 1..Len(ops') : ops'[i].op = "mul" /\ ops'[i].ovf)

\* C6, amended: for caller inputs x in [0, 1000] nothing overflows: the
\* doubled input is at most 2000, a_func squares it only when it is at most
\* 1000, and main_func(x) and a_static_func2(x) return a value in
\* [0, 1000000].
C6_NoOverflowFromCallers ==
    \A f \in Callers :
        (Called(f) /\ arg \in 0..1000) =>
            /\ pc = "returned"
            /\ ~Overflowed
            /\ ret \in 0..1000000
            /\ \A i \in 1..Len(ops) : (ops[i].op = "mul") => (ops[i].a \in 0..1000)

\* a_static_func2(500): 1000 was squared, the largest product a caller input
\* in [0, 1000] reaches.
C6_Witness ==
    /\ Called("a_static_func2") /\ pc = "returned"
    /\ arg = 500
    /\ ops[2] = [op |-> "mul", line |-> 32, a |-> 1000, ovf |-> FALSE]
    /\ ret = 1000000

----------------------------------------------------------------------------
(* C7 *)

\* C7: the computation is stateless.  aa_ holds a_inline_static_func in
\* every reachable state, whatever calls were made; a call that returns
\* gives what an earlier call of the same function with the same argument
\* gave; and a call through aa_.func(x) ends as a_inline_static_func(x) ends.
C7_Stateless ==
    /\ aa_ = [func |-> "a_inline_static_func"]
    /\ (pc = "returned" /\ seen.fn = fn /\ seen.arg = arg) => (seen.ret = ret)
    /\ Called("aa_.func") =>
          /\ \E o \in a_inline_static_func(arg) : Matches(o) /\ o.calls = calls
          /\ (pc = "returned"
                /\ seen.fn = "a_inline_static_func" /\ seen.arg = arg) =>
                (seen.ret = ret)

\* a_static_func2(5) has returned for the second time, after other calls.
C7_Witness ==
    /\ Called("a_static_func2") /\ pc = "returned"
    /\ seen = [fn |-> "a_static_func2", arg |-> 5, ret |-> 10000]
    /\ arg = 5

----------------------------------------------------------------------------
(* C9 *)

\* T(x+x) as a mathematical integer.
Once(x) == MathT(MathDouble(x))

\* C9 as stated: for every x, a_static_func2(x) = T(T(x+x)), where
\* T(y) = y if y > 1000 else y*y.
C9_AsStated ==
    Called("a_static_func2") => Returns(MathT(Once(arg)))

\* C9, amended: for every x in [-23170, 2^30-1], where neither x+x nor a
\* squaring overflows, a_static_func2(x) = T(T(x+x)).  For 0 <= 2x <= 1000 the
\* result is (2x)^2 when (2x)^2 > 1000 and (2x)^4 otherwise, and the result
\* differs from main_func(x) exactly when T(x+x) <= 1000 and T(x+x) is
\* neither 0 nor 1.
C9_TransformTwice ==
    (Called("a_static_func2") /\ arg >= -23170 /\ arg <= 2^30 - 1) =>
        /\ Returns(MathT(Once(arg)))
        /\ ~Overflowed
        /\ (arg \in 0..500) =>
              LET sq == (2 * arg) * (2 * arg)
              IN  ret = IF sq > 1000 THEN sq ELSE sq * sq
        /\ \A m \in main_func(arg) :
              /\ ~m.trap
              /\ m.ret = Once(arg).v
              /\ (ret # m.ret) <=> (m.ret <= 1000 /\ m.ret \notin {0, 1})

\* a_static_func2(16) has returned 1024: the second transform left
\* (2*16)^2 > 1000 unchanged.
C9_Witness ==
    /\ Called("a_static_func2") /\ pc = "returned"
    /\ arg = 16
    /\ calls = <<Call("a_func", 32), Call("a_inline_static_func", 32),
                 Call("a_inline_static_func", 1024)>>
    /\ ret = 1024

====
